---- MODULE Spec2Model ----
(***************************************************************************)
(* Model of the URL shortener service: the urls table (store), the         *)
(* repository statements issued against it, the service operations built   *)
(* on them (create, redirect, metadata, delete, list, sweep), the HTTP     *)
(* status mapping, and the process lifecycle of cmd/server/main.go.        *)
(*                                                                         *)
(* Every store statement is one atomic step.  A request handler that       *)
(* issues several statements, or reads the clock between them, is a        *)
(* sequence of steps that other handlers interleave with.                  *)
(***************************************************************************)
EXTENDS Integers, Sequences, FiniteSets, TLC

(***************************************************************************)
(* Bounds of the model.                                                    *)
(***************************************************************************)
NumProcs == 2        \* request handlers running concurrently
MaxRequests == 3     \* requests accepted in one behaviour
MaxTime == 2         \* clock values 0..MaxTime (seconds)
MaxLength == 7       \* code lengths 0..MaxLength given to the generator
NumConns == 2        \* connections tracked by the shutdown model

(***************************************************************************)
(* Program constants.                                                      *)
(***************************************************************************)
maxAttempts == 10
DefaultLimit == 20
MaxLimit == 100
MinCodeLen == 3
MaxCodeLen == 20
Second == 1          \* time.Second in clock units of the model

StatusOK == 200
StatusCreated == 201
StatusNoContent == 204
StatusMovedPermanently == 301
StatusBadRequest == 400
StatusNotFound == 404
StatusConflict == 409
StatusGone == 410
StatusInternalServerError == 500

(***************************************************************************)
(* Configuration (URL_DEFAULT_TTL defaults to 0: no expiration).           *)
(***************************************************************************)
DefaultTTL == 0

Procs == 1..NumProcs
Conns == 1..NumConns

(***************************************************************************)
(* Optional values (Go pointers): <<>> is nil, <<v>> points to v.          *)
(***************************************************************************)
Nil == <<>>
Some(v) == <<v>>

(***************************************************************************)
(* Domain errors (errors.go).  Wrapping with %w keeps the sentinel         *)
(* visible to errors.Is, so an error is modelled by its sentinel.          *)
(***************************************************************************)
NoErr == "nil"
ErrURLNotFound == "url not found"
ErrURLExpired == "url has expired"
ErrInvalidURL == "invalid url"
ErrShortCodeAlreadyExists == "short code already exists"
ErrInvalidShortCode == "invalid short code"
ErrURLRequired == "url is required"
\* errors without a sentinel (all answered with 500)
ErrStore == "store error"
ErrRandom == "failed to generate random code"
ErrExhausted == "failed to generate unique short code"
\* the panic of generateRandomCode (index out of range), which
\* middleware.Recoverer answers with 500
ErrPanic == "runtime error: index out of range"
\* the error of the store for an INSERT that violates urls_short_code_key,
\* which URLRepository.Create turns into ErrShortCodeAlreadyExists
ErrDuplicateKey == "duplicate key value violates unique constraint"

(***************************************************************************)
(* Inputs.  Short codes are sequences of characters.                       *)
(***************************************************************************)
Lower == {"a", "b", "c", "d", "e", "f", "g", "h", "i", "j", "k", "l", "m",
          "n", "o", "p", "q", "r", "s", "t", "u", "v", "w", "x", "y", "z"}
Upper == {"A", "B", "C", "D", "E", "F", "G", "H", "I", "J", "K", "L", "M",
          "N", "O", "P", "Q", "R", "S", "T", "U", "V", "W", "X", "Y", "Z"}
Digit == {"0", "1", "2", "3", "4", "5", "6", "7", "8", "9"}

CodeA == <<"a", "-", "9">>
CodeG == <<"Q", "r", "7">>
CodeShort == <<"a", "b">>
CodeBadChar == <<"a", "b", "!">>
CodeLong == <<"a", "b", "c", "d", "e", "f", "g", "h", "i", "j", "k",
              "l", "m", "n", "o", "p", "q", "r", "s", "t", "u">>

\* codes the random generator can return in this model
GenCodes == {CodeA, CodeG}
\* custom_code values of create requests; <<>> is the omitted custom code
CustomCodes == {<<>>, CodeA, CodeShort, CodeBadChar, CodeLong}
\* codes looked up by redirect, metadata and delete requests
LookupCodes == {CodeA, CodeG}
\* ttl values (seconds) of create requests
TTLs == {0, 1}
\* limit and offset query parameters of list requests
ListLimits == {0, 1, 101}
ListOffsets == {-1, 1}
\* url values of create requests
RawURLs == {"https://example.com", "not-a-valid-url", "ftp://example.com",
            "http:///nohost", "/relative/path", ""}

(***************************************************************************)
(* net/url.ParseRequestURI on the inputs of the model: the parse result    *)
(* of each raw string (ok = no parse error, Scheme, Host).                 *)
(***************************************************************************)
ParseRequestURI(rawURL) ==
    CASE rawURL = "https://example.com" ->
            [ok |-> TRUE, Scheme |-> "https", Host |-> "example.com"]
      [] rawURL = "http://example.org/a" ->
            [ok |-> TRUE, Scheme |-> "http", Host |-> "example.org"]
      [] rawURL = "ftp://example.com" ->
            [ok |-> TRUE, Scheme |-> "ftp", Host |-> "example.com"]
      [] rawURL = "http:///nohost" ->
            [ok |-> TRUE, Scheme |-> "http", Host |-> ""]
      [] rawURL = "/relative/path" ->
            [ok |-> TRUE, Scheme |-> "", Host |-> ""]
      [] OTHER ->
            [ok |-> FALSE, Scheme |-> "", Host |-> ""]

\* variant: the test of the host is missing
validateURL_NoHostCheck(rawURL) ==
    IF rawURL = "" THEN ErrInvalidURL
    ELSE LET parsedURL == ParseRequestURI(rawURL) IN
         IF ~parsedURL.ok THEN ErrInvalidURL
         ELSE IF parsedURL.Scheme # "http" /\ parsedURL.Scheme # "https"
              THEN ErrInvalidURL
         ELSE NoErr

validateURL(rawURL) ==
    IF rawURL = "" THEN ErrInvalidURL
    ELSE LET parsedURL == ParseRequestURI(rawURL) IN
         IF ~parsedURL.ok THEN ErrInvalidURL
         ELSE IF parsedURL.Scheme # "http" /\ parsedURL.Scheme # "https"
              THEN ErrInvalidURL
         ELSE IF parsedURL.Host = "" THEN ErrInvalidURL
         ELSE NoErr

validateShortCode(code) ==
    IF Len(code) < MinCodeLen \/ Len(code) > MaxCodeLen
    THEN ErrInvalidShortCode
    ELSE IF \E i \in 1..Len(code) :
               ~(code[i] \in Lower \/ code[i] \in Upper \/ code[i] \in Digit
                 \/ code[i] = "-" \/ code[i] = "_")
         THEN ErrInvalidShortCode
         ELSE NoErr

\* variant: the ErrShortCodeAlreadyExists case is missing
handleServiceError_NoConflict(err) ==
    IF err = ErrURLNotFound THEN StatusNotFound
    ELSE IF err = ErrURLExpired THEN StatusGone
    ELSE IF err = ErrInvalidURL THEN StatusBadRequest
    ELSE IF err = ErrInvalidShortCode THEN StatusBadRequest
    ELSE StatusInternalServerError

(***************************************************************************)
(* URLHandler.handleServiceError: sentinel -> HTTP status.                 *)
(***************************************************************************)
handleServiceError(err) ==
    IF err = ErrURLNotFound THEN StatusNotFound
    ELSE IF err = ErrURLExpired THEN StatusGone
    ELSE IF err = ErrInvalidURL THEN StatusBadRequest
    ELSE IF err = ErrShortCodeAlreadyExists THEN StatusConflict
    ELSE IF err = ErrInvalidShortCode THEN StatusBadRequest
    ELSE StatusInternalServerError

(***************************************************************************)
(* generateRandomCode(length): numBytes random bytes are read, encoded with *)
(* base64.RawURLEncoding, cut to length characters, and every '-' or '_'   *)
(* at index i is replaced by charset[randomBytes[i] % len(charset)].       *)
(* Sequences are 1-based here, so index i of the code is position i + 1.   *)
(***************************************************************************)
charset ==
    <<"a", "b", "c", "d", "e", "f", "g", "h", "i", "j", "k", "l", "m",
      "n", "o", "p", "q", "r", "s", "t", "u", "v", "w", "x", "y", "z",
      "A", "B", "C", "D", "E", "F", "G", "H", "I", "J", "K", "L", "M",
      "N", "O", "P", "Q", "R", "S", "T", "U", "V", "W", "X", "Y", "Z",
      "0", "1", "2", "3", "4", "5", "6", "7", "8", "9">>

\* the alphabet of base64.URLEncoding: value v is encoded as position v + 1
encodeURL ==
    <<"A", "B", "C", "D", "E", "F", "G", "H", "I", "J", "K", "L", "M",
      "N", "O", "P", "Q", "R", "S", "T", "U", "V", "W", "X", "Y", "Z",
      "a", "b", "c", "d", "e", "f", "g", "h", "i", "j", "k", "l", "m",
      "n", "o", "p", "q", "r", "s", "t", "u", "v", "w", "x", "y", "z",
      "0", "1", "2", "3", "4", "5", "6", "7", "8", "9", "-", "_">>

\* base64.RawURLEncoding.EncodeToString: 3 bytes give 4 characters of 6 bits
\* each; a rest of 1 byte gives 2 characters, of 2 bytes 3, without padding
RECURSIVE EncodeToString(_)
EncodeToString(src) ==
    IF Len(src) = 0 THEN <<>>
    ELSE IF Len(src) = 1
    THEN <<encodeURL[(src[1] \div 4) + 1],
           encodeURL[(src[1] % 4) * 16 + 1]>>
    ELSE IF Len(src) = 2
    THEN <<encodeURL[(src[1] \div 4) + 1],
           encodeURL[(src[1] % 4) * 16 + (src[2] \div 16) + 1],
           encodeURL[(src[2] % 16) * 4 + 1]>>
    ELSE <<encodeURL[(src[1] \div 4) + 1],
           encodeURL[(src[1] % 4) * 16 + (src[2] \div 16) + 1],
           encodeURL[(src[2] % 16) * 4 + (src[3] \div 64) + 1],
           encodeURL[(src[3] % 64) + 1]>>
         \o EncodeToString(SubSeq(src, 4, Len(src)))

numBytes(length) ==
    IF (length * 6) % 8 # 0 THEN ((length * 6) \div 8) + 1 ELSE (length * 6) \div 8

\* outcomes of a call: a code, an error, or a run-time panic
Returned(code) == [outcome |-> "code", code |-> code]
ReturnedError == [outcome |-> "error", code |-> <<>>]
Panicked == [outcome |-> "panic", code |-> <<>>]

\* variant: the characters '-' and '_' are kept
generateRandomCode_KeepsSymbols(length, randomBytes, readErr) ==
    IF readErr THEN ReturnedError
    ELSE LET encoded == EncodeToString(randomBytes) IN
         IF Len(encoded) < length THEN ReturnedError
         ELSE Returned(SubSeq(encoded, 1, length))

\* randomBytes is what rand.Read delivered (readErr: it failed).  The loop
\* panics with an index out of range at the first '-' or '_' whose index is
\* not an index of randomBytes.
generateRandomCode(length, randomBytes, readErr) ==
    IF readErr THEN ReturnedError
    ELSE LET encoded == EncodeToString(randomBytes) IN
         IF Len(encoded) < length THEN ReturnedError
         ELSE LET code == SubSeq(encoded, 1, length)
                  symbol(i) == code[i] = "-" \/ code[i] = "_"
              IN IF \E i \in 1..length : symbol(i) /\ i > Len(randomBytes)
                 THEN Panicked
                 ELSE Returned([i \in 1..length |->
                                  IF symbol(i)
                                  THEN charset[(randomBytes[i] % Len(charset)) + 1]
                                  ELSE code[i]])

(***************************************************************************)
(* State.                                                                  *)
(***************************************************************************)
VARIABLES
    store,       \* rows of table urls
    nextID,      \* next value of the BIGSERIAL sequence urls.id
    now,         \* wall clock read by time.Now()
    req,         \* per handler: the request in flight and its local variables
    resp,        \* the response written by the last step (NoResponse if none)
    started,     \* requests accepted so far
    tracked,     \* history: id -> number of access-count writes that hit the row
    worker,      \* cleanup worker goroutine: "running", "stopped"
    cleanup,     \* outcome of the CleanupExpired call of the last step
    mainPc,      \* main goroutine: "serving", "shutdown", "exited"
    listening,   \* the HTTP listener is open
    active,      \* connections with a request in flight
    graceOver,   \* the deadline of shutdownCtx has passed
    poolClosed,  \* db.Close() has run
    exitCode,    \* exit status of the process once exited
    call         \* a call of a pure function: its arguments and its outcome

vars == <<store, nextID, now, req, resp, started, tracked, worker, cleanup,
          mainPc, listening, active, graceOver, poolClosed, exitCode, call>>

svcVars == <<store, nextID, now, req, started, tracked>>
procVars == <<mainPc, listening, active, graceOver, poolClosed, exitCode>>

(***************************************************************************)
(* domain.URL                                                              *)
(***************************************************************************)
URL(id, shortCode, originalURL, createdAt, expiresAt, accessCount, lastAccessed) ==
    [ID |-> id, ShortCode |-> shortCode, OriginalURL |-> originalURL,
     CreatedAt |-> createdAt, ExpiresAt |-> expiresAt,
     AccessCount |-> accessCount, LastAccessed |-> lastAccessed]

\* variant: Before in place of After
IsExpired_Before(u, t) ==
    IF u.ExpiresAt = Nil THEN FALSE ELSE t < u.ExpiresAt[1]

\* variant: a row is expired from the instant of its expiry on
IsExpired_AtExpiry(u, t) ==
    IF u.ExpiresAt = Nil THEN FALSE ELSE t >= u.ExpiresAt[1]

\* time.Now().After(*u.ExpiresAt)
IsExpired(u, t) ==
    IF u.ExpiresAt = Nil THEN FALSE ELSE t > u.ExpiresAt[1]

IncrementAccessCount(u, t) ==
    [u EXCEPT !.AccessCount = @ + 1, !.LastAccessed = Some(t)]

(***************************************************************************)
(* Handler-local state of a request in flight, and the response.           *)
(***************************************************************************)
Idle ==
    [op |-> "none", pc |-> "done", code |-> <<>>, custom |-> FALSE,
     rawURL |-> "", ttl |-> 0, attempt |-> 0, entity |-> Nil,
     limit |-> 0, offset |-> 0, svcLimit |-> 0, svcOffset |-> 0, urls |-> <<>>]

NoResponse ==
    [op |-> "none", code |-> <<>>, custom |-> FALSE, rawURL |-> "",
     err |-> NoErr, status |-> 0, entity |-> Nil,
     updates |-> 0, updateErr |-> NoErr,
     urls |-> <<>>, total |-> 0, limit |-> 0, offset |-> 0]

\* respondJSON / http.Redirect / WriteHeader: the answer of request r
Respond(r, err, status, entity) ==
    [NoResponse EXCEPT !.op = r.op, !.code = r.code, !.custom = r.custom,
                       !.rawURL = r.rawURL, !.err = err,
                       !.status = status, !.entity = entity]

\* handleServiceError -> respondError
Fail(r, err) == Respond(r, err, handleServiceError(err), Nil)

NoCleanup == [ran |-> FALSE, count |-> 0, err |-> NoErr]

CanAccept(p) ==
    /\ listening
    /\ req[p].pc = "done"
    /\ started < MaxRequests

(***************************************************************************)
(* Store statements of URLRepository.                                      *)
(***************************************************************************)
RowsByShortCode(rows, shortCode) == {u \in rows : u.ShortCode = shortCode}
RowsByID(rows, id) == {u \in rows : u.ID = id}

\* variant: the table has no UNIQUE constraint on short_code
InsertViolatesUnique_NoConstraint(rows, shortCode) == FALSE

\* variant: the constraint covers only the rows that are not past their expiry
InsertViolatesUnique_IgnoresExpired(rows, shortCode) ==
    \E u \in RowsByShortCode(rows, shortCode) :
        ~(u.ExpiresAt # Nil /\ u.ExpiresAt[1] < now)

\* INSERT INTO urls ... RETURNING id, under UNIQUE(short_code)
InsertViolatesUnique(rows, shortCode) == RowsByShortCode(rows, shortCode) # {}

\* variant: SET access_count = access_count + $1
UpdateRows_AddsCount(rows, u) ==
    {IF r.ID = u.ID
     THEN [r EXCEPT !.AccessCount = @ + u.AccessCount, !.LastAccessed = u.LastAccessed]
     ELSE r : r \in rows}

\* variant: the UPDATE also writes expires_at, as NULL
UpdateRows_ClearsExpiry(rows, u) ==
    {IF r.ID = u.ID
     THEN [r EXCEPT !.AccessCount = u.AccessCount, !.LastAccessed = u.LastAccessed,
                    !.ExpiresAt = Nil]
     ELSE r : r \in rows}

\* UPDATE urls SET access_count = $1, last_accessed = $2 WHERE id = $3
UpdateRows(rows, u) ==
    {IF r.ID = u.ID
     THEN [r EXCEPT !.AccessCount = u.AccessCount, !.LastAccessed = u.LastAccessed]
     ELSE r : r \in rows}

\* variant: the WHERE clause is missing
DeleteRows_All(rows, shortCode) == {}

\* DELETE FROM urls WHERE short_code = $1
DeleteRows(rows, shortCode) == rows \ RowsByShortCode(rows, shortCode)

\* SELECT ... FROM urls ORDER BY created_at DESC LIMIT $1 OFFSET $2:
\* the results the statement can return (rows created at the same time come
\* in any order)
OrderedByCreatedAtDesc(rows) ==
    {s \in [1..Cardinality(rows) -> rows] :
        /\ \A i, j \in DOMAIN s : i # j => s[i] # s[j]
        /\ \A i, j \in DOMAIN s : i < j => s[i].CreatedAt >= s[j].CreatedAt}

LimitOffset(s, limit, offset) ==
    SubSeq(s, offset + 1, IF offset + limit < Len(s) THEN offset + limit ELSE Len(s))

ListResults(rows, limit, offset) ==
    {LimitOffset(s, limit, offset) : s \in OrderedByCreatedAtDesc(rows)}

\* variant: expires_at <= $1
ExpiredRows_Inclusive(rows, t) ==
    {u \in rows : u.ExpiresAt # Nil /\ u.ExpiresAt[1] <= t}

\* variant: expires_at > $1
ExpiredRows_NotYetExpired(rows, t) ==
    {u \in rows : u.ExpiresAt # Nil /\ u.ExpiresAt[1] > t}

\* variant: the test expires_at IS NOT NULL is missing and NULL counts as past
ExpiredRows_NullExpired(rows, t) ==
    {u \in rows : u.ExpiresAt = Nil \/ u.ExpiresAt[1] < t}

\* DELETE FROM urls WHERE expires_at IS NOT NULL AND expires_at < $1
ExpiredRows(rows, t) == {u \in rows : u.ExpiresAt # Nil /\ u.ExpiresAt[1] < t}

(***************************************************************************)
(* The service starts on an empty table, or on a table that holds one row  *)
(* created at time 0 with ttl = 1 by an earlier request.                   *)
(***************************************************************************)
InitialStores ==
    {{}, {URL(1, CodeA, "https://example.com", 0, Some(1), 0, Nil)}}

InitService ==
    /\ store \in InitialStores
    /\ nextID = Cardinality(store) + 1
    /\ now = 0
    /\ req = [p \in Procs |-> Idle]
    /\ resp = NoResponse
    /\ started = 0
    /\ tracked = [i \in {u.ID : u \in store} |-> 0]
    /\ worker = "running"
    /\ cleanup = NoCleanup
    /\ mainPc = "serving"
    /\ listening = TRUE
    /\ active = {}
    /\ graceOver = FALSE
    /\ poolClosed = FALSE
    /\ exitCode = -1

\* no pure function is called on its own
NoCall == [fn |-> "none", pc |-> "return"]

Init == call = NoCall /\ InitService

\* variant: a ttl of 0 is added to the clock like any other ttl
NewURL_ZeroTTLExpiresNow(shortCode, originalURL, ttl, t) ==
    URL(0, shortCode, originalURL, t, Some(t + ttl), 0, Nil)

(***************************************************************************)
(* URLService.CreateShortURL after the short code is chosen: the clock is  *)
(* read (t), the expiry computed and the entity built.                     *)
(***************************************************************************)
NewURL(shortCode, originalURL, ttl, t) ==
    LET expiresAt == IF ttl > 0 THEN Some(t + ttl)
                     ELSE IF DefaultTTL > 0 THEN Some(t + DefaultTTL)
                     ELSE Nil
    IN URL(0, shortCode, originalURL, t, expiresAt, 0, Nil)

(***************************************************************************)
(* POST /api/urls: URLHandler.CreateShortURL and URLService.CreateShortURL *)
(* up to the first store statement.  With a custom code nothing shared is  *)
(* touched before the INSERT, so the entity is built in this step; without *)
(* one the generate-probe loop comes first.                                *)
(***************************************************************************)
CreateShortURL(p) ==
    /\ CanAccept(p)
    /\ \E rawURL \in RawURLs, customCode \in CustomCodes, reqTTL \in TTLs :
         LET ttl == IF reqTTL > 0 THEN reqTTL * Second ELSE 0
             r0 == [Idle EXCEPT !.op = "create", !.rawURL = rawURL, !.ttl = ttl]
         IN IF rawURL = ""
            THEN /\ resp' = Respond(r0, ErrURLRequired, StatusBadRequest, Nil)
                 /\ req' = req
            ELSE IF validateURL(rawURL) # NoErr
            THEN /\ resp' = Fail(r0, validateURL(rawURL))
                 /\ req' = req
            ELSE IF customCode = <<>>
            THEN /\ req' = [req EXCEPT ![p] = [r0 EXCEPT !.pc = "generate"]]
                 /\ resp' = NoResponse
            ELSE IF validateShortCode(customCode) # NoErr
            THEN /\ resp' = Fail([r0 EXCEPT !.code = customCode, !.custom = TRUE],
                                 validateShortCode(customCode))
                 /\ req' = req
            ELSE /\ req' = [req EXCEPT ![p] =
                               [r0 EXCEPT !.pc = "insert",
                                          !.code = customCode, !.custom = TRUE,
                                            !.entity = Some(NewURL(customCode, rawURL, ttl, now))]]
                 /\ resp' = NoResponse
    /\ started' = started + 1
    /\ cleanup' = NoCleanup
    /\ UNCHANGED <<store, nextID, now, tracked, worker, procVars, call>>

\* variant: the loop condition is attempt <= maxAttempts
generateShortCode_OneMore(p) ==
    /\ req[p].op = "create" /\ req[p].pc = "generate"
    /\ req[p].attempt <= maxAttempts
    /\ \/ /\ resp' = Fail(req[p], ErrRandom)
          /\ req' = [req EXCEPT ![p] = Idle]
       \/ /\ resp' = Respond(req[p], ErrPanic, StatusInternalServerError, Nil)
          /\ req' = [req EXCEPT ![p] = Idle]
       \/ \E code \in GenCodes, dbErr \in BOOLEAN :
            IF dbErr
            THEN /\ resp' = Fail(req[p], ErrStore)
                 /\ req' = [req EXCEPT ![p] = Idle]
            ELSE IF RowsByShortCode(store, code) = {}
            THEN /\ req' = [req EXCEPT ![p] =
                               [@ EXCEPT !.pc = "build", !.code = code, !.attempt = 0]]
                 /\ resp' = NoResponse
            ELSE IF req[p].attempt = maxAttempts
            THEN /\ resp' = Fail(req[p], ErrExhausted)
                 /\ req' = [req EXCEPT ![p] = Idle]
            ELSE /\ req' = [req EXCEPT ![p] = [@ EXCEPT !.attempt = @ + 1]]
                 /\ resp' = NoResponse
    /\ cleanup' = NoCleanup
    /\ UNCHANGED <<store, nextID, now, started, tracked, worker, procVars, call>>

(***************************************************************************)
(* One attempt of URLService.generateShortCode: draw a candidate, probe    *)
(* the store for it.  generateRandomCode returns a code, returns the error *)
(* of the random source, or panics (see generateRandomCode below); the     *)
(* panic unwinds the handler and middleware.Recoverer answers 500.         *)
(***************************************************************************)
generateShortCode(p) ==
    /\ req[p].op = "create" /\ req[p].pc = "generate"
    /\ req[p].attempt < maxAttempts
    /\ \/ /\ resp' = Fail(req[p], ErrRandom)
          /\ req' = [req EXCEPT ![p] = Idle]
       \/ /\ resp' = Respond(req[p], ErrPanic, StatusInternalServerError, Nil)
          /\ req' = [req EXCEPT ![p] = Idle]
       \/ \E code \in GenCodes, dbErr \in BOOLEAN :
            IF dbErr
            THEN /\ resp' = Fail(req[p], ErrStore)
                 /\ req' = [req EXCEPT ![p] = Idle]
            ELSE IF RowsByShortCode(store, code) = {}
            THEN /\ req' = [req EXCEPT ![p] =
                               [@ EXCEPT !.pc = "build", !.code = code, !.attempt = 0]]
                 /\ resp' = NoResponse
            ELSE IF req[p].attempt + 1 = maxAttempts
            THEN /\ resp' = Fail(req[p], ErrExhausted)
                 /\ req' = [req EXCEPT ![p] = Idle]
            ELSE /\ req' = [req EXCEPT ![p] = [@ EXCEPT !.attempt = @ + 1]]
                 /\ resp' = NoResponse
    /\ cleanup' = NoCleanup
    /\ UNCHANGED <<store, nextID, now, started, tracked, worker, procVars, call>>

(***************************************************************************)
(* URLService.CreateShortURL after generateShortCode returned a code: read *)
(* the clock, compute the expiry and build the entity.                     *)
(***************************************************************************)
CreateShortURL_Build(p) ==
    /\ req[p].op = "create" /\ req[p].pc = "build"
    /\ req' = [req EXCEPT ![p] =
                  [@ EXCEPT !.pc = "insert",
                            !.entity = Some(NewURL(req[p].code, req[p].rawURL, req[p].ttl, now))]]
    /\ resp' = NoResponse
    /\ cleanup' = NoCleanup
    /\ UNCHANGED <<store, nextID, now, started, tracked, worker, procVars, call>>

\* variant: the text of the unique violation is not recognised
Create_UnmatchedViolation(p) ==
    /\ req[p].op = "create" /\ req[p].pc = "insert"
    /\ \E dbErr \in BOOLEAN :
         LET url == req[p].entity[1]
             row == [url EXCEPT !.ID = nextID]
         IN IF dbErr
            THEN /\ resp' = Fail(req[p], ErrStore)
                 /\ UNCHANGED <<store, nextID, tracked>>
            ELSE IF InsertViolatesUnique(store, url.ShortCode)
            THEN /\ resp' = Fail(req[p], ErrDuplicateKey)
                 /\ nextID' = nextID + 1
                 /\ UNCHANGED <<store, tracked>>
            ELSE /\ store' = store \cup {row}
                 /\ nextID' = nextID + 1
                 /\ tracked' = [i \in DOMAIN tracked \cup {nextID} |->
                                   IF i = nextID THEN 0 ELSE tracked[i]]
                 /\ resp' = Respond(req[p], NoErr, StatusCreated, Some(row))
    /\ req' = [req EXCEPT ![p] = Idle]
    /\ cleanup' = NoCleanup
    /\ UNCHANGED <<now, started, worker, procVars, call>>

(***************************************************************************)
(* URLRepository.Create: the INSERT, and the answer of the request.  The   *)
(* sequence value is consumed even when the unique constraint rejects the  *)
(* row.                                                                    *)
(***************************************************************************)
Create(p) ==
    /\ req[p].op = "create" /\ req[p].pc = "insert"
    /\ \E dbErr \in BOOLEAN :
         LET url == req[p].entity[1]
             row == [url EXCEPT !.ID = nextID]
         IN IF dbErr
            THEN /\ resp' = Fail(req[p], ErrStore)
                 /\ UNCHANGED <<store, nextID, tracked>>
            ELSE IF InsertViolatesUnique(store, url.ShortCode)
            THEN /\ resp' = Fail(req[p], ErrShortCodeAlreadyExists)
                 /\ nextID' = nextID + 1
                 /\ UNCHANGED <<store, tracked>>
            ELSE /\ store' = store \cup {row}
                 /\ nextID' = nextID + 1
                 /\ tracked' = [i \in DOMAIN tracked \cup {nextID} |->
                                   IF i = nextID THEN 0 ELSE tracked[i]]
                 /\ resp' = Respond(req[p], NoErr, StatusCreated, Some(row))
    /\ req' = [req EXCEPT ![p] = Idle]
    /\ cleanup' = NoCleanup
    /\ UNCHANGED <<now, started, worker, procVars, call>>

(***************************************************************************)
(* GET /{shortCode}: URLHandler.RedirectToOriginal calling                 *)
(* URLService.GetOriginalURL: the SELECT, then IsExpired and               *)
(* IncrementAccessCount on the row read, then the UPDATE.                  *)
(***************************************************************************)
GetOriginalURL(p) ==
    /\ CanAccept(p)
    /\ \E shortCode \in LookupCodes, dbErr \in BOOLEAN :
         LET found == RowsByShortCode(store, shortCode)
             r0 == [Idle EXCEPT !.op = "redirect", !.code = shortCode]
         IN IF dbErr
            THEN /\ resp' = Fail(r0, ErrStore)
                 /\ req' = req
            ELSE IF found = {}
            THEN /\ resp' = Fail(r0, ErrURLNotFound)
                 /\ req' = req
            ELSE /\ req' = [req EXCEPT ![p] =
                               [r0 EXCEPT !.pc = "expiry",
                                          !.entity = Some(CHOOSE u \in found : TRUE)]]
                 /\ resp' = NoResponse
    /\ started' = started + 1
    /\ cleanup' = NoCleanup
    /\ UNCHANGED <<store, nextID, now, tracked, worker, procVars, call>>

GetOriginalURL_IsExpired(p) ==
    /\ req[p].op = "redirect" /\ req[p].pc = "expiry"
    /\ IF IsExpired(req[p].entity[1], now)
       THEN /\ resp' = Fail(req[p], ErrURLExpired)
            /\ req' = [req EXCEPT ![p] = Idle]
       ELSE /\ req' = [req EXCEPT ![p] =
                          [@ EXCEPT !.pc = "update",
                                    !.entity = Some(IncrementAccessCount(@[1], now))]]
            /\ resp' = NoResponse
    /\ cleanup' = NoCleanup
    /\ UNCHANGED <<store, nextID, now, started, tracked, worker, procVars, call>>

\* variant: the error of URLRepository.Update is returned to the handler
Update_ReturnsError(p) ==
    /\ req[p].op = "redirect" /\ req[p].pc = "update"
    /\ \E dbErr \in BOOLEAN :
         LET u == req[p].entity[1]
             updateErr == IF dbErr THEN ErrStore
                          ELSE IF RowsByID(store, u.ID) = {} THEN ErrURLNotFound
                          ELSE NoErr
         IN /\ IF updateErr = NoErr
               THEN /\ store' = UpdateRows(store, u)
                    /\ tracked' = [tracked EXCEPT ![u.ID] = @ + 1]
               ELSE UNCHANGED <<store, tracked>>
            /\ resp' = [(IF updateErr = NoErr
                         THEN Respond(req[p], NoErr, StatusMovedPermanently, Some(u))
                         ELSE Fail(req[p], updateErr))
                          EXCEPT !.updates = 1, !.updateErr = updateErr]
    /\ req' = [req EXCEPT ![p] = Idle]
    /\ cleanup' = NoCleanup
    /\ UNCHANGED <<nextID, now, started, worker, procVars, call>>

\* variant: UPDATE urls SET ... WHERE short_code = $3
Update_ByShortCode(p) ==
    /\ req[p].op = "redirect" /\ req[p].pc = "update"
    /\ \E dbErr \in BOOLEAN :
         LET u == req[p].entity[1]
             found == RowsByShortCode(store, u.ShortCode)
             updateErr == IF dbErr THEN ErrStore
                          ELSE IF found = {} THEN ErrURLNotFound
                          ELSE NoErr
         IN /\ IF updateErr = NoErr
               THEN /\ store' = {IF r \in found
                                 THEN [r EXCEPT !.AccessCount = u.AccessCount,
                                                !.LastAccessed = u.LastAccessed]
                                 ELSE r : r \in store}
                    /\ tracked' = [i \in DOMAIN tracked |->
                                      IF i \in {r.ID : r \in found}
                                      THEN tracked[i] + 1 ELSE tracked[i]]
               ELSE UNCHANGED <<store, tracked>>
            /\ resp' = [Respond(req[p], NoErr, StatusMovedPermanently, Some(u))
                          EXCEPT !.updates = 1, !.updateErr = updateErr]
    /\ req' = [req EXCEPT ![p] = Idle]
    /\ cleanup' = NoCleanup
    /\ UNCHANGED <<nextID, now, started, worker, procVars, call>>

\* URLRepository.Update; its error is logged, the redirect answers 301
Update(p) ==
    /\ req[p].op = "redirect" /\ req[p].pc = "update"
    /\ \E dbErr \in BOOLEAN :
         LET u == req[p].entity[1]
             updateErr == IF dbErr THEN ErrStore
                          ELSE IF RowsByID(store, u.ID) = {} THEN ErrURLNotFound
                          ELSE NoErr
         IN /\ IF updateErr = NoErr
               THEN /\ store' = UpdateRows(store, u)
                    /\ tracked' = [tracked EXCEPT ![u.ID] = @ + 1]
               ELSE UNCHANGED <<store, tracked>>
            /\ resp' = [Respond(req[p], NoErr, StatusMovedPermanently, Some(u))
                          EXCEPT !.updates = 1, !.updateErr = updateErr]
    /\ req' = [req EXCEPT ![p] = Idle]
    /\ cleanup' = NoCleanup
    /\ UNCHANGED <<nextID, now, started, worker, procVars, call>>

\* variant: the metadata read tests the expiry as the redirect does
GetURLMetadata_ChecksExpiry(p) ==
    /\ CanAccept(p)
    /\ \E shortCode \in LookupCodes, dbErr \in BOOLEAN :
         LET found == RowsByShortCode(store, shortCode)
             r0 == [Idle EXCEPT !.op = "metadata", !.code = shortCode]
         IN resp' = IF dbErr THEN Fail(r0, ErrStore)
                    ELSE IF found = {} THEN Fail(r0, ErrURLNotFound)
                    ELSE IF IsExpired(CHOOSE u \in found : TRUE, now)
                         THEN Fail(r0, ErrURLExpired)
                    ELSE Respond(r0, NoErr, StatusOK, Some(CHOOSE u \in found : TRUE))
    /\ started' = started + 1
    /\ cleanup' = NoCleanup
    /\ UNCHANGED <<store, nextID, now, req, tracked, worker, procVars, call>>

\* variant: the metadata read counts as an access
GetURLMetadata_CountsAccess(p) ==
    /\ CanAccept(p)
    /\ \E shortCode \in LookupCodes, dbErr \in BOOLEAN :
         LET found == RowsByShortCode(store, shortCode)
             r0 == [Idle EXCEPT !.op = "metadata", !.code = shortCode]
         IN resp' = IF dbErr THEN Fail(r0, ErrStore)
                    ELSE IF found = {} THEN Fail(r0, ErrURLNotFound)
                    ELSE Respond(r0, NoErr, StatusOK,
                                 Some(IncrementAccessCount(CHOOSE u \in found : TRUE, now)))
    /\ started' = started + 1
    /\ cleanup' = NoCleanup
    /\ UNCHANGED <<store, nextID, now, req, tracked, worker, procVars, call>>

(***************************************************************************)
(* GET /api/urls/{shortCode}: URLService.GetURLMetadata, one SELECT.       *)
(***************************************************************************)
GetURLMetadata(p) ==
    /\ CanAccept(p)
    /\ \E shortCode \in LookupCodes, dbErr \in BOOLEAN :
         LET found == RowsByShortCode(store, shortCode)
             r0 == [Idle EXCEPT !.op = "metadata", !.code = shortCode]
         IN resp' = IF dbErr THEN Fail(r0, ErrStore)
                    ELSE IF found = {} THEN Fail(r0, ErrURLNotFound)
                    ELSE Respond(r0, NoErr, StatusOK, Some(CHOOSE u \in found : TRUE))
    /\ started' = started + 1
    /\ cleanup' = NoCleanup
    /\ UNCHANGED <<store, nextID, now, req, tracked, worker, procVars, call>>

(***************************************************************************)
(* DELETE /api/urls/{shortCode}: URLService.DeleteURL, one DELETE.         *)
(***************************************************************************)
DeleteURL(p) ==
    /\ CanAccept(p)
    /\ \E shortCode \in LookupCodes, dbErr \in BOOLEAN :
         LET r0 == [Idle EXCEPT !.op = "delete", !.code = shortCode]
         IN IF dbErr
            THEN /\ resp' = Fail(r0, ErrStore)
                 /\ store' = store
            ELSE IF RowsByShortCode(store, shortCode) = {}
            THEN /\ resp' = Fail(r0, ErrURLNotFound)
                 /\ store' = store
            ELSE /\ resp' = Respond(r0, NoErr, StatusNoContent, Nil)
                 /\ store' = DeleteRows(store, shortCode)
    /\ started' = started + 1
    /\ cleanup' = NoCleanup
    /\ UNCHANGED <<nextID, now, req, tracked, worker, procVars, call>>

\* variant: the test limit > 100 is missing
ServiceLimit_NoUpperBound(limit) ==
    IF limit <= 0 THEN DefaultLimit ELSE limit

\* URLService.ListURLs: the limit and offset given to URLRepository.List
ServiceLimit(limit) ==
    IF limit <= 0 \/ limit > MaxLimit THEN DefaultLimit ELSE limit

ServiceOffset(offset) == IF offset < 0 THEN 0 ELSE offset

(***************************************************************************)
(* GET /api/urls: URLHandler.ListURLs calling URLService.ListURLs, which   *)
(* defaults the parameters and issues the SELECT of the page and then,     *)
(* in Count, the row count.  The response carries the limit and           *)
(* offset parsed by the handler.                                           *)
(***************************************************************************)
ListURLs(p) ==
    /\ CanAccept(p)
    /\ \E limit \in ListLimits, offset \in ListOffsets, dbErr \in BOOLEAN :
         LET r0 == [Idle EXCEPT !.op = "list", !.limit = limit, !.offset = offset,
                                !.svcLimit = ServiceLimit(limit),
                                !.svcOffset = ServiceOffset(offset)]
         IN IF dbErr
            THEN /\ resp' = Respond(r0, ErrStore, StatusInternalServerError, Nil)
                 /\ req' = req
            ELSE /\ \E urls \in ListResults(store, r0.svcLimit, r0.svcOffset) :
                      req' = [req EXCEPT ![p] = [r0 EXCEPT !.pc = "count", !.urls = urls]]
                 /\ resp' = NoResponse
    /\ started' = started + 1
    /\ cleanup' = NoCleanup
    /\ UNCHANGED <<store, nextID, now, tracked, worker, procVars, call>>

Count(p) ==
    /\ req[p].op = "list" /\ req[p].pc = "count"
    /\ \E dbErr \in BOOLEAN :
         resp' = IF dbErr
                 THEN Respond(req[p], ErrStore, StatusInternalServerError, Nil)
                 ELSE [Respond(req[p], NoErr, StatusOK, Nil)
                         EXCEPT !.urls = req[p].urls, !.total = Cardinality(store),
                                !.limit = req[p].limit, !.offset = req[p].offset]
    /\ req' = [req EXCEPT ![p] = Idle]
    /\ cleanup' = NoCleanup
    /\ UNCHANGED <<store, nextID, now, started, tracked, worker, procVars, call>>

(***************************************************************************)
(* The clock.                                                              *)
(***************************************************************************)
Tick ==
    /\ now < MaxTime
    /\ now' = now + 1
    /\ resp' = NoResponse
    /\ cleanup' = NoCleanup
    /\ UNCHANGED <<store, nextID, req, started, tracked, worker, procVars, call>>

(***************************************************************************)
(* startCleanupWorker: one iteration of the worker loop.  The select       *)
(* returns on ctx.Done() (the worker stops) or on a tick of the ticker,    *)
(* and then runs URLService.CleanupExpired -> URLRepository.DeleteExpired: *)
(* one DELETE with time.Now() as its parameter.  main starts the worker    *)
(* with context.Background(), whose Done channel never fires.              *)
(***************************************************************************)
WorkerCtxDone == FALSE

\* variant: the worker returns when CleanupExpired fails
startCleanupWorker_ReturnsOnError ==
    /\ mainPc # "exited"
    /\ worker = "running"
    /\ IF WorkerCtxDone
       THEN /\ worker' = "stopped"
            /\ cleanup' = NoCleanup
            /\ store' = store
       ELSE \E dbErr \in BOOLEAN :
                 IF dbErr
                 THEN /\ cleanup' = [ran |-> TRUE, count |-> 0, err |-> ErrStore]
                      /\ store' = store
                      /\ worker' = "stopped"
                 ELSE /\ cleanup' = [ran |-> TRUE, err |-> NoErr,
                                     count |-> Cardinality(ExpiredRows(store, now))]
                      /\ store' = store \ ExpiredRows(store, now)
                      /\ worker' = worker
    /\ resp' = NoResponse
    /\ UNCHANGED <<nextID, now, req, started, tracked, procVars, call>>

startCleanupWorker ==
    /\ mainPc # "exited"
    /\ worker = "running"
    /\ IF WorkerCtxDone
       THEN /\ worker' = "stopped"
            /\ cleanup' = NoCleanup
            /\ store' = store
       ELSE /\ worker' = worker
            /\ \E dbErr \in BOOLEAN :
                 IF dbErr
                 THEN /\ cleanup' = [ran |-> TRUE, count |-> 0, err |-> ErrStore]
                      /\ store' = store
                 ELSE /\ cleanup' = [ran |-> TRUE, err |-> NoErr,
                                     count |-> Cardinality(ExpiredRows(store, now))]
                      /\ store' = store \ ExpiredRows(store, now)
    /\ resp' = NoResponse
    /\ UNCHANGED <<nextID, now, req, started, tracked, procVars, call>>

Next ==
    \/ \E p \in Procs : CreateShortURL(p)
    \/ \E p \in Procs : generateShortCode(p)
    \/ \E p \in Procs : CreateShortURL_Build(p)
    \/ \E p \in Procs : Create(p)
    \/ \E p \in Procs : GetOriginalURL(p)
    \/ \E p \in Procs : GetOriginalURL_IsExpired(p)
    \/ \E p \in Procs : Update(p)
    \/ \E p \in Procs : GetURLMetadata(p)
    \/ \E p \in Procs : DeleteURL(p)
    \/ \E p \in Procs : ListURLs(p)
    \/ \E p \in Procs : Count(p)
    \/ Tick
    \/ startCleanupWorker

Spec == Init /\ [][Next]_vars

(***************************************************************************)
(* The service with one request at a time: every request is answered       *)
(* before the next one is accepted (a client that waits for each answer).  *)
(* The clock and the cleanup worker still run between the steps.           *)
(***************************************************************************)
NextSeq ==
    \/ CreateShortURL(1)
    \/ generateShortCode(1)
    \/ CreateShortURL_Build(1)
    \/ Create(1)
    \/ GetOriginalURL(1)
    \/ GetOriginalURL_IsExpired(1)
    \/ Update(1)
    \/ GetURLMetadata(1)
    \/ DeleteURL(1)
    \/ ListURLs(1)
    \/ Count(1)
    \/ Tick
    \/ startCleanupWorker

SpecSeq == Init /\ [][NextSeq]_vars

\* the goroutine of a request in flight keeps running: a handler that can
\* take a step of the generate-probe loop eventually takes one
SpecSeqFair == SpecSeq /\ WF_vars(generateShortCode(1))

\* the ticker of the cleanup worker keeps firing and the worker never
\* returns: a run of CleanupExpired that succeeds and removes rows is
\* eventually taken while there are rows to remove
SweepSucceeds == startCleanupWorker /\ cleanup'.ran /\ cleanup'.err = NoErr

SpecSeqSweepFair == SpecSeq /\ WF_vars(SweepSucceeds)

(***************************************************************************)
(* generateRandomCode called on its own: every configured length up to     *)
(* MaxLength, with every sequence of numBytes(length) bytes over           *)
(* ByteValues delivered by the random source, or a failure of the source.  *)
(* The byte values put '-' and '_' at every position of the encoding.      *)
(***************************************************************************)
ByteValues == {0, 62, 239, 251, 255}

\* the sequences of n bytes
ByteSeqs(n) == [1..n -> ByteValues]

generateRandomCodeCall(length, randomBytes, readErr) ==
    [fn |-> "generateRandomCode", pc |-> "call", length |-> length,
     randomBytes |-> randomBytes, readErr |-> readErr, result |-> ReturnedError]

InitRandomCode ==
    /\ \E length \in 0..MaxLength :
         \E randomBytes \in ByteSeqs(numBytes(length)), readErr \in BOOLEAN :
            call = generateRandomCodeCall(length, randomBytes, readErr)
    /\ store = {}
    /\ InitService

Call_generateRandomCode ==
    /\ call.fn = "generateRandomCode" /\ call.pc = "call"
    /\ call' = [call EXCEPT !.pc = "return",
                            !.result = generateRandomCode(call.length, call.randomBytes,
                                                          call.readErr)]
    /\ UNCHANGED <<store, nextID, now, req, resp, started, tracked, worker,
                   cleanup, procVars>>

NextRandomCode == Call_generateRandomCode

SpecRandomCode == InitRandomCode /\ [][NextRandomCode]_vars

(***************************************************************************)
(* The ttl of a create request, from the JSON field to the expiry.  The    *)
(* field is an int64 number of seconds and time.Duration is an int64       *)
(* number of nanoseconds; an int64 is written here as its 8 bytes, least   *)
(* significant first (two's complement), and the multiplication keeps the  *)
(* low 64 bits of the product, as Go's does.                               *)
(***************************************************************************)
LimbBase == 256
Int64Limbs == 8

Zero64 == [i \in 1..Int64Limbs |-> 0]
IsNegative64(x) == x[Int64Limbs] >= LimbBase \div 2
IsPositive64(x) == ~IsNegative64(x) /\ x # Zero64

\* time.Second = 1000000000 = 0x3B9ACA00
time_Second == <<0, 202, 154, 59, 0, 0, 0, 0>>

\* column k of the schoolbook product of a and b, from row i on
RECURSIVE MulColumn(_, _, _, _)
MulColumn(a, b, k, i) ==
    IF i > Len(a) THEN 0
    ELSE (IF (k - i) + 1 \in 1..Len(b) THEN a[i] * b[(k - i) + 1] ELSE 0)
         + MulColumn(a, b, k, i + 1)

RECURSIVE PropagateCarry(_, _, _)
PropagateCarry(cols, k, carry) ==
    IF k > Len(cols) THEN <<>>
    ELSE <<(cols[k] + carry) % LimbBase>>
         \o PropagateCarry(cols, k + 1, (cols[k] + carry) \div LimbBase)

\* the product of two numbers that are not negative, in full (16 bytes)
FullProduct(a, b) ==
    PropagateCarry([k \in 1..(Len(a) + Len(b)) |-> MulColumn(a, b, k, 1)], 1, 0)

\* a * b on int64: the low 64 bits of the product
Mul64(a, b) == SubSeq(FullProduct(a, b), 1, Int64Limbs)

\* URLHandler.CreateShortURL: if req.TTL > 0 { ttl = time.Duration(req.TTL) * time.Second }
DurationOfTTL(reqTTL) ==
    IF IsPositive64(reqTTL) THEN Mul64(reqTTL, time_Second) ELSE Zero64

\* URLService.CreateShortURL: which duration, if any, is added to the clock
ExpiryOfDuration(ttl) ==
    IF IsPositive64(ttl) THEN [path |-> "ttl", d |-> ttl]
    ELSE IF DefaultTTL > 0 THEN [path |-> "default", d |-> Zero64]
    ELSE [path |-> "none", d |-> Zero64]

\* the bytes that the ttl of the request is made of
TTLLowLimbs == {0, 4, 5, 37, 125, 193}
TTLMidLimbs == {0, 2}
TTLHighLimbs == {0, 127, 128, 255}

ttlCall(reqTTL) ==
    [fn |-> "ttl", pc |-> "call", reqTTL |-> reqTTL,
     result |-> [path |-> "none", d |-> Zero64]]

InitTTL ==
    /\ \E lo \in [1..4 -> TTLLowLimbs], mid \in TTLMidLimbs, hi \in TTLHighLimbs :
         call = ttlCall([i \in 1..Int64Limbs |->
                            IF i <= 4 THEN lo[i]
                            ELSE IF i = 5 THEN mid
                            ELSE IF i = Int64Limbs THEN hi ELSE 0])
    /\ store = {}
    /\ InitService

Call_ttl ==
    /\ call.fn = "ttl" /\ call.pc = "call"
    /\ call' = [call EXCEPT !.pc = "return",
                            !.result = ExpiryOfDuration(DurationOfTTL(call.reqTTL))]
    /\ UNCHANGED <<store, nextID, now, req, resp, started, tracked, worker,
                   cleanup, procVars>>

NextTTL == Call_ttl

SpecTTL == InitTTL /\ [][NextTTL]_vars

(***************************************************************************)
(* Process lifecycle (main).  Connections stand for the requests in        *)
(* flight that http.Server tracks: Shutdown closes the listener, then      *)
(* waits until no connection is active or the context given to it ends.    *)
(***************************************************************************)

\* server.ListenAndServe accepts a connection and serves a request on it
Accept(c) ==
    /\ mainPc # "exited"
    /\ listening
    /\ c \notin active
    /\ active' = active \cup {c}
    /\ resp' = NoResponse
    /\ cleanup' = NoCleanup
    /\ UNCHANGED <<svcVars, worker, mainPc, listening, graceOver, poolClosed, exitCode, call>>

\* the handler of a connection returns
Finish(c) ==
    /\ mainPc # "exited"
    /\ c \in active
    /\ active' = active \ {c}
    /\ resp' = NoResponse
    /\ cleanup' = NoCleanup
    /\ UNCHANGED <<svcVars, worker, mainPc, listening, graceOver, poolClosed, exitCode, call>>

\* sig := <-quit; shutdownCtx is created with cfg.Server.ShutdownTimeout
Signal ==
    /\ mainPc = "serving"
    /\ mainPc' = "shutdown"
    /\ graceOver' = FALSE
    /\ resp' = NoResponse
    /\ cleanup' = NoCleanup
    /\ UNCHANGED <<svcVars, worker, listening, active, poolClosed, exitCode, call>>

\* server.Shutdown(shutdownCtx) begins: the listener is closed
Shutdown_CloseListeners ==
    /\ mainPc = "shutdown"
    /\ listening
    /\ listening' = FALSE
    /\ resp' = NoResponse
    /\ cleanup' = NoCleanup
    /\ UNCHANGED <<svcVars, worker, mainPc, active, graceOver, poolClosed, exitCode, call>>

\* the deadline of shutdownCtx passes
ShutdownTimeout ==
    /\ mainPc = "shutdown"
    /\ ~graceOver
    /\ graceOver' = TRUE
    /\ resp' = NoResponse
    /\ cleanup' = NoCleanup
    /\ UNCHANGED <<svcVars, worker, mainPc, listening, active, poolClosed, exitCode, call>>

\* server.Shutdown returns.  With no active connection it returns nil: main
\* returns and its deferred calls run, db.Close() among them.  With the
\* deadline passed and a connection still active it returns the context's
\* error: main calls os.Exit(1), which runs no deferred call.
Shutdown ==
    /\ mainPc = "shutdown"
    /\ ~listening
    /\ IF active = {}
       THEN /\ poolClosed' = TRUE
            /\ exitCode' = 0
       ELSE /\ graceOver
            /\ poolClosed' = poolClosed
            /\ exitCode' = 1
    /\ mainPc' = "exited"
    /\ resp' = NoResponse
    /\ cleanup' = NoCleanup
    /\ UNCHANGED <<svcVars, worker, listening, active, graceOver, call>>

NextShutdown ==
    \/ \E c \in Conns : Accept(c)
    \/ \E c \in Conns : Finish(c)
    \/ Signal
    \/ Shutdown_CloseListeners
    \/ ShutdownTimeout
    \/ Shutdown
    \/ startCleanupWorker
    \/ Tick

SpecShutdown == Init /\ [][NextShutdown]_vars

TypeOK ==
    /\ nextID \in Nat
    /\ now \in 0..MaxTime
    /\ started \in 0..MaxRequests
    /\ worker \in {"running", "stopped"}
    /\ mainPc \in {"serving", "shutdown", "exited"}

(***************************************************************************)
(* Properties.                                                             *)
(***************************************************************************)

\* handler p takes the step that ends its request
Answers(p) == req[p].pc # "done" /\ req'[p].pc = "done"

\* row u is past its expiry at time t (expires_at is not null and before t)
PastExpiry(u, t) == u.ExpiresAt # Nil /\ u.ExpiresAt[1] < t

NoRedirectInFlight == \A p \in Procs : req[p].op # "redirect"

\* C1: when no redirect is in flight, the stored access_count of every row
\* equals the number of redirects whose counter write reached that row (each
\* redirect read incremented the stored counter exactly once: no lost update).
C1_NoLostUpdate ==
    NoRedirectInFlight => \A u \in store : u.AccessCount = tracked[u.ID]

\* C2: the stored accessCount of a row is never negative, and no step makes
\* the accessCount of a row that stays in the store smaller.
C2_AccessCountNeverDecreases ==
    /\ [](\A u \in store : u.AccessCount >= 0)
    /\ [][\A u \in store : \A v \in store' :
             v.ID = u.ID => v.AccessCount >= u.AccessCount]_vars

\* C3: the store holds at most one row per short code, in every reachable
\* state (whatever creates run concurrently).
C3_OneRowPerShortCode ==
    \A u, v \in store : u.ShortCode = v.ShortCode => u = v

\* C3 witness: a create with a generated code, which passed the existence
\* probe, was rejected by the INSERT because a concurrent create inserted the
\* same code in between; the store holds the one row.
C3_Witness ==
    /\ resp.op = "create" /\ ~resp.custom
    /\ resp.err = ErrShortCodeAlreadyExists
    /\ Cardinality(RowsByShortCode(store, resp.code)) = 1

\* C4: the INSERT of a create with a custom code that is present in the store
\* answers AlreadyExists with status 409 (unless the store itself fails, which
\* is answered 500), adds no row under any code, and leaves every row as it was.
C4_DuplicateCustomCode ==
    [][\A p \in Procs :
          (/\ req[p].op = "create" /\ req[p].pc = "insert" /\ req[p].custom
           /\ RowsByShortCode(store, req[p].code) # {}
           /\ Answers(p))
          => /\ store' = store
             /\ resp'.code = req[p].code
             /\ \/ resp'.err = ErrShortCodeAlreadyExists /\ resp'.status = StatusConflict
                \/ resp'.err = ErrStore /\ resp'.status = StatusInternalServerError]_vars

\* C4 witness: a create with custom code CodeA was answered 409 and the row
\* that held the code is in the store.
C4_Witness ==
    /\ resp.op = "create" /\ resp.custom
    /\ resp.status = StatusConflict
    /\ \E u \in store : u.ShortCode = resp.code

\* C5: when the expiry test of a redirect runs on a row that is past its
\* expiry (as is every row that was past it when it was read), the redirect
\* answers Expired with status 410, issues no UPDATE, ends, and the store is
\* unchanged.
C5_ExpiredRedirect ==
    [][\A p \in Procs :
          (/\ req[p].op = "redirect" /\ req[p].pc = "expiry"
           /\ PastExpiry(req[p].entity[1], now)
           /\ req'[p] # req[p])
          => /\ req'[p] = Idle
             /\ resp'.op = "redirect"
             /\ resp'.err = ErrURLExpired /\ resp'.status = StatusGone
             /\ resp'.updates = 0
             /\ store' = store]_vars

\* C5 witness: a redirect was answered 410 and the expired row is still in
\* the store, never accessed.
C5_Witness ==
    /\ resp.op = "redirect" /\ resp.status = StatusGone
    /\ \E u \in store :
         /\ u.ShortCode = resp.code /\ PastExpiry(u, now)
         /\ u.AccessCount = 0 /\ u.LastAccessed = Nil

\* C6: a metadata read changes no row, never answers Expired, and answers
\* 200 with the stored row whenever a row with the code exists (unless the
\* store itself fails), whether the row is past its expiry or not.
C6_MetadataReadOnly ==
    [][resp'.op = "metadata"
          => /\ store' = store
             /\ resp'.err # ErrURLExpired /\ resp'.status # StatusGone
             /\ \A u \in store :
                  (u.ShortCode = resp'.code /\ resp'.err # ErrStore)
                  => /\ resp'.err = NoErr /\ resp'.status = StatusOK
                     /\ resp'.entity = Some(u)]_vars

\* C6 witness: a metadata read returned a row that is past its expiry.
C6_Witness ==
    /\ resp.op = "metadata" /\ resp.status = StatusOK
    /\ PastExpiry(resp.entity[1], now)
    /\ resp.entity[1] \in store

\* C7: when the UPDATE of a redirect fails (store error, or no row with the
\* id), the redirect still answers 301 with the original URL of the row it
\* read and no error, the request ends after that one UPDATE, and the store
\* is unchanged.
C7_FailedCounterWrite ==
    [][\A p \in Procs :
          (/\ req[p].op = "redirect" /\ req[p].pc = "update"
           /\ Answers(p)
           /\ resp'.updateErr # NoErr)
          => /\ resp'.status = StatusMovedPermanently /\ resp'.err = NoErr
             /\ resp'.entity # Nil
             /\ resp'.entity[1].OriginalURL = req[p].entity[1].OriginalURL
             /\ resp'.updates = 1
             /\ req'[p] = Idle
             /\ store' = store]_vars

\* C7 witness: a redirect answered 301 although its UPDATE failed.
C7_Witness ==
    /\ resp.op = "redirect" /\ resp.status = StatusMovedPermanently
    /\ resp.updateErr # NoErr

\* C8: a sweep that succeeds at time now removes exactly the rows whose
\* expires_at is not null and before now, reports their number, and leaves
\* every other row as it was.
C8_SweepDeletesExactlyExpired ==
    [][(cleanup'.ran /\ cleanup'.err = NoErr)
          => /\ store' = {u \in store : ~PastExpiry(u, now)}
             /\ cleanup'.count = Cardinality({u \in store : PastExpiry(u, now)})]_vars

\* C8 witness: a sweep deleted a row and kept one whose expiry is the time of
\* the sweep.
C8_Witness ==
    /\ cleanup.ran /\ cleanup.count > 0
    /\ \E u \in store : u.ExpiresAt = Some(now)

\* C9: once the shutdown signal is received no sweep runs any more, and when
\* the process has exited the cleanup worker has stopped (its context was
\* cancelled by the shutdown).
C9_SweeperCancelledByShutdown ==
    /\ mainPc # "serving" => ~cleanup.ran
    /\ mainPc = "exited" => worker = "stopped"

\* C10: the pool is closed only after the listener is closed and the wait for
\* the requests in flight is over, and when the process has exited after a
\* shutdown signal the pool is closed, on every path.
C10_PoolClosedOnEveryShutdownPath ==
    /\ poolClosed => (~listening /\ (active = {} \/ graceOver))
    /\ mainPc = "exited" => poolClosed

\* C11: a sweep run that fails deletes nothing and reports no deleted row, is
\* one call (the worker takes no second step for it), leaves the worker
\* running and the process where it was, so that the worker can run again;
\* and a run that comes right after a failed run and succeeds deletes exactly
\* the rows past their expiry at its own time, as a run after no failure does.
C11_FailedSweep ==
    [][/\ (cleanup'.ran /\ cleanup'.err # NoErr)
            => /\ store' = store
               /\ cleanup'.count = 0
               /\ worker' = "running"
               /\ mainPc' = mainPc /\ mainPc' # "exited"
               /\ exitCode' = exitCode
       /\ (cleanup.ran /\ cleanup.err # NoErr /\ cleanup'.ran /\ cleanup'.err = NoErr)
            => /\ store' = {u \in store : ~PastExpiry(u, now)}
               /\ cleanup'.count = Cardinality({u \in store : PastExpiry(u, now)})]_vars

\* C11 witness: a run failed while the store held a row past its expiry; the
\* row is still there, the worker is running and the process serving.
C11_Witness ==
    /\ cleanup.ran /\ cleanup.err # NoErr
    /\ \E u \in store : PastExpiry(u, now)
    /\ worker = "running" /\ mainPc = "serving"

\* C12: when a create has succeeded (201) and the very next step is a
\* metadata read of the short code it returned, the read answers 200 (unless
\* the store itself fails) with a record whose original_url is the url of the
\* create request, whose short code is the returned one (the custom code, if
\* one was supplied) and whose access_count is 0.
C12_CreateThenMetadata ==
    [][(/\ resp.op = "create" /\ resp.status = StatusCreated
        /\ resp'.op = "metadata"
        /\ resp'.code = resp.entity[1].ShortCode
        /\ resp'.err # ErrStore)
          => /\ resp'.err = NoErr /\ resp'.status = StatusOK
             /\ resp'.entity # Nil
             /\ resp'.entity[1].OriginalURL = resp.rawURL
             /\ resp'.entity[1].ShortCode = resp.entity[1].ShortCode
             /\ resp.custom => resp'.entity[1].ShortCode = resp.code
             /\ resp'.entity[1].AccessCount = 0
             /\ resp'.entity[1].ID = resp.entity[1].ID]_vars

\* C12 witness: the second request of the run, a metadata read, returned the
\* record that the first request created under a generated code.
C12_Witness ==
    /\ resp.op = "metadata" /\ resp.status = StatusOK
    /\ started = 2
    /\ resp.entity[1].ShortCode = CodeG
    /\ resp.entity[1].ID = nextID - 1
    /\ resp.entity[1].OriginalURL = "https://example.com"
    /\ resp.entity[1].AccessCount = 0

\* C13: with no default TTL configured, the INSERT of a create whose ttl is 0
\* (or omitted) stores a row with a null expires_at; a row with a null
\* expires_at keeps it null, the expiry test of a redirect that read such a
\* row never answers Expired whatever the clock shows, and no sweep removes
\* such a row.
C13_NoTTLNeverExpires ==
    [][/\ \A p \in Procs :
            (/\ DefaultTTL = 0
             /\ req[p].op = "create" /\ req[p].pc = "insert" /\ req[p].ttl = 0
             /\ resp'.op = "create" /\ resp'.status = StatusCreated
             /\ Answers(p))
            => /\ resp'.entity[1].ExpiresAt = Nil
               /\ resp'.entity[1] \in store'
       /\ \A u \in store : \A v \in store' :
            (u.ExpiresAt = Nil /\ v.ID = u.ID) => v.ExpiresAt = Nil
       /\ \A p \in Procs :
            (/\ req[p].op = "redirect" /\ req[p].pc = "expiry"
             /\ req[p].entity[1].ExpiresAt = Nil
             /\ req'[p] # req[p])
            => /\ req'[p].pc = "update"
               /\ resp'.err # ErrURLExpired /\ resp'.status # StatusGone
       /\ cleanup'.ran
            => \A u \in store : u.ExpiresAt = Nil => u \in store']_vars

\* C13 witness: a row created at time 0 without ttl was served by a redirect
\* at the last clock value, and the sweep that ran right after left it in
\* the store.
C13_Witness ==
    /\ cleanup.ran /\ cleanup.err = NoErr
    /\ now = MaxTime
    /\ \E u \in store :
         /\ u.ExpiresAt = Nil /\ u.CreatedAt = 0
         /\ u.LastAccessed = Some(MaxTime) /\ u.AccessCount = 1

\* C14: the expiry test of a redirect answers Expired (410) exactly when the
\* expires_at of the row it read is not null and earlier than the clock at the
\* test, and otherwise goes on to the counter write.  A row created with
\* ttl = 1 second expires 1 second after its creation: a redirect tested up to
\* that instant is served, one tested 2 seconds after creation answers
\* Expired, and a metadata read returns the row exactly as stored, leaving
\* the store unchanged.
C14_ExpiredIffPastExpiry ==
    [][/\ \A p \in Procs :
            (req[p].op = "redirect" /\ req[p].pc = "expiry" /\ req'[p] # req[p])
            => LET u == req[p].entity[1] IN
               /\ (resp'.err = ErrURLExpired) <=> PastExpiry(u, now)
               /\ (resp'.status = StatusGone) <=> PastExpiry(u, now)
               /\ PastExpiry(u, now) => req'[p] = Idle
               /\ ~PastExpiry(u, now)
                    => (req'[p].pc = "update" /\ resp' = NoResponse)
               /\ u.ExpiresAt = Some(u.CreatedAt + 1 * Second)
                    => /\ now <= u.CreatedAt + 1 * Second => resp'.err # ErrURLExpired
                       /\ now >= u.CreatedAt + 2 * Second => resp'.err = ErrURLExpired
       /\ \A p \in Procs :
            (/\ req[p].op = "create" /\ req[p].pc = "insert"
             /\ req[p].ttl = 1 * Second
             /\ resp'.op = "create" /\ resp'.status = StatusCreated
             /\ Answers(p))
            => resp'.entity[1].ExpiresAt = Some(resp'.entity[1].CreatedAt + 1 * Second)
       /\ (resp'.op = "metadata" /\ resp'.status = StatusOK)
            => (resp'.entity[1] \in store /\ store' = store)]_vars

\* C14 witness: a redirect 2 seconds after the creation of a row with
\* ttl = 1 second answered Expired; the row had been served once before its
\* expiry and is still stored as that redirect left it.
C14_Witness ==
    /\ resp.op = "redirect" /\ resp.status = StatusGone
    /\ now = 2 * Second
    /\ \E u \in store :
         /\ u.ShortCode = resp.code
         /\ u.CreatedAt = 0 /\ u.ExpiresAt = Some(1 * Second)
         /\ u.AccessCount = 1 /\ u.LastAccessed # Nil

\* C15: with one request at a time, a created row starts with access_count 0;
\* every redirect whose counter write is persisted raises the stored
\* access_count of its row by exactly 1 and stores the last_accessed time it
\* read from the clock, and changes nothing else; and a metadata read reports
\* as access_count the number of such redirects of the row so far.
C15_SequentialRedirectsCount ==
    [][/\ (resp'.op = "create" /\ resp'.status = StatusCreated)
            => /\ resp'.entity[1].AccessCount = 0
               /\ resp'.entity[1].LastAccessed = Nil
               /\ tracked'[resp'.entity[1].ID] = 0
       /\ (resp'.op = "redirect" /\ resp'.updates = 1 /\ resp'.updateErr = NoErr)
            => \E u \in store :
                 /\ u.ID = resp'.entity[1].ID
                 /\ tracked'[u.ID] = tracked[u.ID] + 1
                 /\ resp'.entity[1].LastAccessed # Nil
                 /\ resp'.entity[1].LastAccessed[1] <= now
                 /\ store' = (store \ {u}) \cup
                       {[u EXCEPT !.AccessCount = u.AccessCount + 1,
                                  !.LastAccessed = resp'.entity[1].LastAccessed]}
       /\ (resp'.op = "metadata" /\ resp'.status = StatusOK)
            => resp'.entity[1].AccessCount = tracked[resp'.entity[1].ID]]_vars

\* C15 witness: the third request of the run, a metadata read, reported
\* access_count 2 after two redirects of the row.
C15_Witness ==
    /\ resp.op = "metadata" /\ resp.status = StatusOK
    /\ started = MaxRequests
    /\ resp.entity[1].AccessCount = 2
    /\ tracked[resp.entity[1].ID] = 2

\* C16: the generate-probe loop of a create without custom code has made
\* fewer than 10 failed attempts whenever it is about to make one; an attempt
\* either ends the loop or counts one more failed attempt; the 10th attempt
\* always ends the loop, and when every candidate is present in the store it
\* ends the request with the exhaustion error (or the error of the failed
\* probe); the exhaustion error is answered only after the 10th collision,
\* with status 500, no INSERT and no further step of the request.  The loop,
\* once entered, is eventually left.
C16_GenerateLoopBounded ==
    /\ [](\A p \in Procs : req[p].attempt < maxAttempts)
    /\ [][\A p \in Procs :
            (req[p].op = "create" /\ req[p].pc = "generate" /\ req'[p] # req[p])
            => /\ req'[p].pc = "generate" => req'[p].attempt = req[p].attempt + 1
               /\ req[p].attempt = maxAttempts - 1 => req'[p].pc # "generate"
               /\ (/\ req[p].attempt = maxAttempts - 1
                   /\ \A c \in GenCodes : RowsByShortCode(store, c) # {})
                    => /\ req'[p] = Idle
                       /\ resp'.err \in {ErrExhausted, ErrStore, ErrRandom, ErrPanic}
               /\ resp'.err = ErrExhausted
                    => /\ req[p].attempt = maxAttempts - 1
                       /\ resp'.status = StatusInternalServerError
                       /\ req'[p] = Idle
                       /\ store' = store /\ nextID' = nextID]_vars
    /\ (req[1].pc = "generate") ~> (req[1].pc # "generate")

\* C16 witness: a create without custom code was answered with the
\* exhaustion error; the store holds what it held before the request.
C16_Witness ==
    /\ resp.op = "create" /\ ~resp.custom
    /\ resp.err = ErrExhausted /\ resp.status = StatusInternalServerError
    /\ started = 1
    /\ store \in InitialStores

\* C17: for every length and every byte sequence delivered by the random
\* source, a code that generateRandomCode returns has exactly length
\* characters, each of them a letter or a digit (no '-' and no '_').
C17_GeneratedCodeAlphanumeric ==
    (call.fn = "generateRandomCode" /\ call.pc = "return"
     /\ call.result.outcome = "code")
    => /\ Len(call.result.code) = call.length
       /\ \A i \in 1..Len(call.result.code) :
            call.result.code[i] \in Lower \cup Upper \cup Digit

\* C17 witness: a code of the default length 7 was returned for bytes whose
\* encoding has a '-' and a '_' among its first 7 characters.
C17_Witness ==
    /\ call.fn = "generateRandomCode" /\ call.pc = "return"
    /\ call.result.outcome = "code"
    /\ call.length = 7
    /\ \E i, j \in 1..call.length :
         /\ EncodeToString(call.randomBytes)[i] = "-"
         /\ EncodeToString(call.randomBytes)[j] = "_"

\* the page of a list request in flight: no more rows than the limit given
\* to the store, each of them a row of the store, none twice
PageWithin(r, rows) ==
    /\ Len(r.urls) <= r.svcLimit
    /\ \A i \in 1..Len(r.urls) : r.urls[i] \in rows
    /\ \A i, j \in 1..Len(r.urls) : i # j => r.urls[i] # r.urls[j]

\* C18: a list request uses as effective limit the supplied limit if it is in
\* 1..100, 20 if it is not positive, and 100 if it is above 100, and as
\* effective offset 0 for a negative offset; the page holds no more rows than
\* the effective limit; and the total of the answer is the number of rows in
\* the store, whatever limit and offset were supplied.
C18_ListLimitClamped ==
    [][\A p \in Procs :
          /\ (req'[p].op = "list" /\ req'[p].pc = "count" /\ req[p].pc = "done")
               => /\ req'[p].svcLimit =
                       (IF req'[p].limit <= 0 THEN DefaultLimit
                        ELSE IF req'[p].limit > MaxLimit THEN MaxLimit
                        ELSE req'[p].limit)
                  /\ req'[p].svcOffset = (IF req'[p].offset < 0 THEN 0 ELSE req'[p].offset)
                  /\ req'[p].svcLimit > 0 /\ req'[p].svcLimit <= MaxLimit
                  /\ PageWithin(req'[p], store)
          /\ (req[p].op = "list" /\ req[p].pc = "count" /\ Answers(p)
              /\ resp'.status = StatusOK)
               => /\ resp'.total = Cardinality(store)
                  /\ resp'.urls = req[p].urls]_vars

\* C18 as amended: as C18, but a limit above 100 gives the effective limit
\* 20, like a limit that is not positive.
C18_ListLimitDefaulted ==
    [][\A p \in Procs :
          /\ (req'[p].op = "list" /\ req'[p].pc = "count" /\ req[p].pc = "done")
               => /\ req'[p].svcLimit =
                       (IF req'[p].limit <= 0 \/ req'[p].limit > MaxLimit
                        THEN DefaultLimit ELSE req'[p].limit)
                  /\ req'[p].svcOffset = (IF req'[p].offset < 0 THEN 0 ELSE req'[p].offset)
                  /\ req'[p].svcLimit > 0 /\ req'[p].svcLimit <= MaxLimit
                  /\ PageWithin(req'[p], store)
          /\ (req[p].op = "list" /\ req[p].pc = "count" /\ Answers(p)
              /\ resp'.status = StatusOK)
               => /\ resp'.total = Cardinality(store)
                  /\ resp'.urls = req[p].urls]_vars

\* C18 witness: a list request with limit 101 and a negative offset read its
\* page from a store of two rows with limit 20 and offset 0.
C18_Witness ==
    \E p \in Procs :
       /\ req[p].op = "list" /\ req[p].pc = "count"
       /\ req[p].limit = MaxLimit + 1 /\ req[p].offset < 0
       /\ req[p].svcLimit = DefaultLimit /\ req[p].svcOffset = 0
       /\ Cardinality(store) = 2 /\ Len(req[p].urls) = 2

\* C19: a delete of a code that has a row, past its expiry or not, answers
\* 204 and removes that one row and no other; a delete of a code without a
\* row answers 404 and leaves the store unchanged, as does a delete that the
\* store fails (500).  A redirect, metadata read or delete that starts while
\* its code has no row answers 404 and leaves the store unchanged.  A code
\* without a row gets one only by a successful create of that code.
C19_DeleteRemovesRecord ==
    [][/\ (resp'.op = "delete" /\ resp'.err # ErrStore)
            => LET found == RowsByShortCode(store, resp'.code) IN
               IF found # {}
               THEN /\ resp'.status = StatusNoContent /\ resp'.err = NoErr
                    /\ Cardinality(found) = 1
                    /\ store' = store \ found
                    /\ RowsByShortCode(store', resp'.code) = {}
               ELSE /\ resp'.status = StatusNotFound /\ resp'.err = ErrURLNotFound
                    /\ store' = store
       /\ (resp'.op = "delete" /\ resp'.err = ErrStore) => store' = store
       /\ (/\ started' = started + 1
           /\ resp'.op \in {"redirect", "metadata", "delete"}
           /\ RowsByShortCode(store, resp'.code) = {}
           /\ resp'.err # ErrStore)
            => /\ resp'.status = StatusNotFound /\ resp'.err = ErrURLNotFound
               /\ store' = store
       /\ \A p \in Procs :
            (req[p].pc = "done" /\ req'[p].op = "redirect" /\ req'[p].pc # "done")
            => RowsByShortCode(store, req'[p].code) # {}
       /\ \A c \in LookupCodes :
            (RowsByShortCode(store, c) = {} /\ RowsByShortCode(store', c) # {})
            => /\ resp'.op = "create" /\ resp'.status = StatusCreated
               /\ resp'.entity[1].ShortCode = c]_vars

\* C19 witness: the only request of the run, a delete at the last clock
\* value, removed the row that the service started with, which had expired.
C19_Witness ==
    /\ resp.op = "delete" /\ resp.status = StatusNoContent
    /\ started = 1 /\ nextID = 2
    /\ now = MaxTime
    /\ store = {}

\* the url of a create request is not an absolute http or https URL with a
\* host (the empty url is not one)
NotAbsoluteHTTP(rawURL) ==
    \/ ~ParseRequestURI(rawURL).ok
    \/ ParseRequestURI(rawURL).Scheme \notin {"http", "https"}
    \/ ParseRequestURI(rawURL).Host = ""

\* the custom code is shorter than 3, longer than 20, or has a character
\* outside letters, digits, '-' and '_'
BadShortCode(code) ==
    \/ Len(code) < 3 \/ Len(code) > 20
    \/ \E i \in 1..Len(code) :
         code[i] \notin Lower \cup Upper \cup Digit \cup {"-", "_"}

\* a create request is answered by the step that accepts it
CreateRejected == started' = started + 1 /\ resp'.op = "create"

\* what C20 and its amended form share: a create whose custom code is bad is
\* answered 'invalid short code' with status 400; a create that goes on to
\* the generate-probe loop or to the INSERT has a url and a custom code that
\* are neither; and a create answered 400 inserts nothing, consumes no id and
\* leaves no request in flight.
CreateValidationAtomic ==
    /\ (CreateRejected /\ resp'.custom /\ BadShortCode(resp'.code))
         => (resp'.err = ErrInvalidShortCode /\ resp'.status = StatusBadRequest)
    /\ \A p \in Procs :
         (req[p].pc = "done" /\ req'[p].op = "create" /\ req'[p].pc # "done")
         => /\ req'[p].rawURL # "" /\ ~NotAbsoluteHTTP(req'[p].rawURL)
            /\ req'[p].custom => ~BadShortCode(req'[p].code)
    /\ (resp'.op = "create" /\ resp'.status = StatusBadRequest)
         => /\ store' = store /\ nextID' = nextID
            /\ req' = req
            /\ resp'.err \in {ErrInvalidURL, ErrInvalidShortCode, ErrURLRequired}

\* C20: a create whose url is empty, not an absolute http or https URL, or
\* without host is answered 'invalid URL' with status 400; one whose custom
\* code is too short, too long or has a character outside [A-Za-z0-9_-] is
\* answered 'invalid short code' with status 400; in both cases nothing is
\* inserted and the store is unchanged.
C20_InvalidInputRejected ==
    [][/\ (CreateRejected /\ (resp'.rawURL = "" \/ NotAbsoluteHTTP(resp'.rawURL)))
            => (resp'.err = ErrInvalidURL /\ resp'.status = StatusBadRequest)
       /\ CreateValidationAtomic]_vars

\* C20 as amended: as C20, but a create whose url is empty is answered
\* 'url is required' (status 400) by the handler, before the validation of
\* the service runs.
C20_InvalidInputRejected400 ==
    [][/\ (CreateRejected /\ resp'.rawURL = "")
            => (resp'.err = ErrURLRequired /\ resp'.status = StatusBadRequest)
       /\ (CreateRejected /\ resp'.rawURL # "" /\ NotAbsoluteHTTP(resp'.rawURL))
            => (resp'.err = ErrInvalidURL /\ resp'.status = StatusBadRequest)
       /\ CreateValidationAtomic]_vars

\* C20 witness: a create with an empty url was answered 400 'url is
\* required' while the store held a row, which is still the only one.
C20_Witness ==
    /\ resp.op = "create" /\ resp.rawURL = ""
    /\ resp.err = ErrURLRequired /\ resp.status = StatusBadRequest
    /\ store \in InitialStores /\ store # {}
    /\ nextID = 2

\* C21: the INSERT of a create with a generated code (one that its probe
\* found absent) answers 201 and adds the row when no row has the code, and
\* when a concurrent create has inserted the code in between answers
\* AlreadyExists with status 409, not an internal error (unless the store
\* call itself fails); either way the request ends there, without another
\* generation, and afterwards the store holds exactly one row of the code.
C21_GeneratedCodeCollision ==
    [][\A p \in Procs :
          (/\ req[p].op = "create" /\ req[p].pc = "insert" /\ ~req[p].custom
           /\ req'[p] # req[p])
          => /\ req'[p] = Idle
             /\ resp'.op = "create" /\ resp'.code = req[p].code
             /\ (resp'.err # ErrStore)
                  => /\ Cardinality(RowsByShortCode(store', req[p].code)) = 1
                     /\ IF RowsByShortCode(store, req[p].code) = {}
                        THEN /\ resp'.status = StatusCreated /\ resp'.err = NoErr
                             /\ store' = store \cup {resp'.entity[1]}
                        ELSE /\ resp'.status = StatusConflict
                             /\ resp'.err = ErrShortCodeAlreadyExists
                             /\ store' = store
             /\ (resp'.err = ErrStore) => store' = store]_vars

\* C21 witness: two creates without custom code ran on an empty store and
\* drew the same candidate; the second INSERT was answered 409 and the store
\* holds the row of the first.
C21_Witness ==
    /\ resp.op = "create" /\ ~resp.custom
    /\ resp.status = StatusConflict
    /\ started = 2 /\ nextID = 3
    /\ \E u \in store : u.ShortCode = resp.code /\ u.ID = 1
    /\ Cardinality(store) = 1

(***************************************************************************)
(* C22: a row keeps its id, short code, original URL, creation time and    *)
(* expiry for as long as it is in the table; the only step that changes a  *)
(* row is the UPDATE of a redirect, and it changes nothing but the access  *)
(* count and the last access time.                                         *)
(***************************************************************************)
C22_ImmutableFields ==
    [][\A u \in store : \A v \in store' :
          (v.ID = u.ID) =>
             /\ v.ShortCode = u.ShortCode
             /\ v.OriginalURL = u.OriginalURL
             /\ v.CreatedAt = u.CreatedAt
             /\ v.ExpiresAt = u.ExpiresAt
             /\ (v # u) => /\ resp'.op = "redirect"
                           /\ resp'.updates = 1
                           /\ resp'.updateErr = NoErr
                           /\ resp'.entity = Some(v)]_vars

\* the UPDATE of a redirect has just changed the row created before the start
C22_Witness ==
    /\ resp.op = "redirect" /\ resp.updates = 1 /\ resp.updateErr = NoErr
    /\ URL(1, CodeA, "https://example.com", 0, Some(1), 1, Some(1)) \in store

(***************************************************************************)
(* C23: while the worker keeps running and its runs eventually succeed,    *)
(* every row whose expiry has passed is eventually out of the table,       *)
(* removed by a run of the worker or by a delete request.                  *)
(***************************************************************************)
C23_ExpiredEventuallyRemoved ==
    \A id \in 1..(MaxRequests + 1) :
        (\E u \in store : u.ID = id /\ PastExpiry(u, now))
            ~> (\A u \in store : u.ID # id)

\* a run of the worker has just removed the one row of the table, which a
\* redirect had served before its expiry passed
C23_Witness ==
    /\ cleanup.ran /\ cleanup.err = NoErr /\ cleanup.count = 1
    /\ store = {} /\ nextID = 2
    /\ tracked[1] = 1
    /\ now = MaxTime

(***************************************************************************)
(* C24: for every length of at least 1 and every byte sequence that the    *)
(* random source delivers without error, generateRandomCode completes and  *)
(* returns a code of exactly that length: it neither takes the 'too short' *)
(* path nor reads a random byte at an index beyond the bytes drawn.        *)
(***************************************************************************)
C24_GenerationAlwaysCompletes ==
    (call.fn = "generateRandomCode" /\ call.pc = "return"
     /\ call.length >= 1 /\ ~call.readErr)
    => /\ call.result.outcome = "code"
       /\ Len(call.result.code) = call.length

(***************************************************************************)
(* C25: under concurrent redirects the stored last access time of a row    *)
(* never moves to an earlier time, and the UPDATE of a redirect leaves it  *)
(* no earlier than the access time of that redirect (so that, once every   *)
(* redirect has finished, it is the access time of the latest one).        *)
(***************************************************************************)
C25_LastAccessedNeverEarlier ==
    [][\A u \in store : \A v \in store' :
          (v.ID = u.ID) =>
             /\ (u.LastAccessed # Nil)
                  => /\ v.LastAccessed # Nil
                     /\ v.LastAccessed[1] >= u.LastAccessed[1]
             /\ (v # u)
                  => /\ v.LastAccessed # Nil
                     /\ resp'.entity # Nil
                     /\ v.LastAccessed[1] >= resp'.entity[1].LastAccessed[1]]_vars

(***************************************************************************)
(* C26: the UPDATE of a redirect changes no row but the one with the id    *)
(* that the redirect read; when that row is gone the UPDATE changes        *)
(* nothing (it neither recreates the row nor touches a row created since   *)
(* under the same short code); and an id that has left the table never     *)
(* comes back.                                                             *)
(***************************************************************************)
C26_WriteTargetsRecordRead ==
    [][/\ \A p \in Procs :
            (req[p].op = "redirect" /\ req[p].pc = "update" /\ req'[p] # req[p])
            => /\ \A v \in store : v.ID # req[p].entity[1].ID => v \in store'
               /\ \A v \in store' : v.ID # req[p].entity[1].ID => v \in store
               /\ RowsByID(store, req[p].entity[1].ID) = {} => store' = store
       /\ \A id \in 1..(nextID - 1) :
            RowsByID(store, id) = {} => RowsByID(store', id) = {}]_vars

\* the UPDATE of a redirect found no row with the id it read, while the
\* table holds a younger row with the same short code, never accessed
C26_Witness ==
    /\ resp.op = "redirect" /\ resp.updates = 1
    /\ resp.updateErr = ErrURLNotFound
    /\ \E v \in store : /\ v.ShortCode = resp.code
                        /\ v.ID > resp.entity[1].ID
                        /\ v.AccessCount = 0 /\ v.LastAccessed = Nil

(***************************************************************************)
(* C27: a row past its expiry that is still in the table occupies its      *)
(* short code: the INSERT of a create with that custom code answers        *)
(* AlreadyExists (409) and adds nothing, and the generate-probe loop       *)
(* accepts a candidate only if no row, expired or not, has it.  When no    *)
(* row has the code, the INSERT succeeds with a fresh row: a new id,       *)
(* access count 0 and no last access time.                                 *)
(***************************************************************************)
C27_ExpiredRowOccupiesCode ==
    [][\A p \in Procs :
          /\ (/\ req[p].op = "create" /\ req[p].pc = "insert" /\ req[p].custom
               /\ Answers(p)
               /\ \E u \in store : u.ShortCode = req[p].code /\ PastExpiry(u, now))
                => /\ store' = store
                   /\ \/ /\ resp'.err = ErrShortCodeAlreadyExists
                         /\ resp'.status = StatusConflict
                      \/ /\ resp'.err = ErrStore
                         /\ resp'.status = StatusInternalServerError
          /\ (/\ req[p].op = "create" /\ req[p].pc = "generate"
               /\ req'[p].pc = "build")
                => RowsByShortCode(store, req'[p].code) = {}
          /\ (/\ req[p].op = "create" /\ req[p].pc = "insert" /\ Answers(p)
               /\ RowsByShortCode(store, req[p].code) = {}
               /\ resp'.err # ErrStore)
                => /\ resp'.status = StatusCreated
                   /\ resp'.entity # Nil
                   /\ resp'.entity[1].ShortCode = req[p].code
                   /\ resp'.entity[1].AccessCount = 0
                   /\ resp'.entity[1].LastAccessed = Nil
                   /\ \A u \in store : u.ID # resp'.entity[1].ID
                   /\ resp'.entity[1].ID >= nextID
                   /\ store' = store \cup {resp'.entity[1]}]_vars

\* a create with a custom code was answered 409 because of a row past its
\* expiry, which a redirect had served while it was valid
C27_Witness ==
    /\ resp.op = "create" /\ resp.custom
    /\ resp.status = StatusConflict /\ resp.err = ErrShortCodeAlreadyExists
    /\ \E u \in store : /\ u.ShortCode = resp.code
                        /\ PastExpiry(u, now)
                        /\ u.AccessCount = 1

(***************************************************************************)
(* C28: the limit and the offset of a list answer are the effective ones,  *)
(* which the service applied to the SELECT, and the answer holds no more   *)
(* rows than the limit it reports.                                         *)
(***************************************************************************)
C28_ListReportsEffectiveWindow ==
    [][\A p \in Procs :
          (/\ req[p].op = "list" /\ req[p].pc = "count" /\ Answers(p)
           /\ resp'.status = StatusOK)
          => /\ resp'.limit = req[p].svcLimit
             /\ resp'.offset = req[p].svcOffset
             /\ Len(resp'.urls) <= resp'.limit]_vars

(***************************************************************************)
(* C29: for a request ttl greater than 0 the duration added to the         *)
(* creation time is ttl seconds exactly (the product ttl * time.Second     *)
(* without wrap-around), hence positive, so that the expiry is strictly    *)
(* later than the creation time; it is the request ttl that gives the      *)
(* expiry, not the default TTL and not 'no expiry'.                        *)
(***************************************************************************)
C29_TTLConversionExact ==
    (call.fn = "ttl" /\ call.pc = "return" /\ IsPositive64(call.reqTTL))
    => /\ call.result.path = "ttl"
       /\ IsPositive64(call.result.d)
       /\ call.result.d \o Zero64 = FullProduct(call.reqTTL, time_Second)

====
